---- MODULE Spec2Model ----
(***************************************************************************)
(* Model of the recording core of devolutions-gateway:                     *)
(*   - the recording manager actor (recording_manager_task and the        *)
(*     handle_connect / handle_disconnect / handle_remove methods),        *)
(*   - the Active-Recording Index (ActiveRecordings),                      *)
(*   - the disconnect TTL heap and its re-armable sleep timer,             *)
(*   - the client pusher (ClientPush::run).                                *)
(*                                                                         *)
(* Time: `clock` counts ticks of the monotonic clock (tokio Instant);      *)
(* the wall clock read by unix_timestamp() is clock \div TicksPerSec.      *)
(***************************************************************************)
EXTENDS Integers, Sequences, FiniteSets, TLC

\* ------------------------------------------------------------------ bounds

NumIds == 2

MaxEvents == 4

ChanCap == 2

MaxDelays == 2

TicksPerSec == 1

NumPushers == 2

NumMsgs == 2

NumHandlers == 2

MaxCalls == 3

NumEndpoints == 2

MaxChanges == 2

MaxServerErrors == 1

\* ------------------------------------------------------- program constants

DISCONNECTED_TTL_SECS == 10

DISCONNECTED_TTL_DURATION == DISCONNECTED_TTL_SECS * TicksPerSec

\* ------------------------------------------------------------------- types

Ids == 1..NumIds

Pushers == 1..NumPushers

FileTypes == {"webm", "trp"}

\* the lengths of time, in ticks, that pass in one step of the clock
Delays == {1, DISCONNECTED_TTL_DURATION - 1, DISCONNECTED_TTL_DURATION}

NoFileName == [idx |-> 0 - 1, ext |-> "none"]

\* format!("recording-{next_file_idx}.{file_type}")
FileName(idx, ft) == [idx |-> idx, ext |-> ft]

JrecFile(name, start, dur) == [file_name |-> name, start_time |-> start, duration |-> dur]

JrecManifest(id, start, dur, files) ==
    [session_id |-> id, start_time |-> start, duration |-> dur, files |-> files]

NoManifest == JrecManifest(0, 0, 0, <<>>)

\* An entry of ongoing_recordings; state "Absent" stands for a missing key.
OnGoingRecording(st, ts, m) == [state |-> st, timestamp |-> ts, manifest |-> m]

Absent == OnGoingRecording("Absent", 0, NoManifest)

\* A session directory on disk: st is "nodir" (no directory), "nofile"
\* (directory without recording.json), "corrupt" (recording.json that does
\* not parse) or "ok" (recording.json holding manifest m).
DiskEntry(st, m) == [st |-> st, m |-> m]

NoDir == DiskEntry("nodir", NoManifest)

ConnectMsg(id, ft, from) == [kind |-> "Connect", id |-> id, file_type |-> ft, from |-> from]

DisconnectMsg(id, from) == [kind |-> "Disconnect", id |-> id, file_type |-> "none", from |-> from]

GetStateMsg(id) == [kind |-> "GetState", id |-> id, file_type |-> "none", from |-> 0]

GetCountMsg == [kind |-> "GetCount", id |-> 0, file_type |-> "none", from |-> 0]

DisconnectedTtl(deadline, id) == [deadline |-> deadline, id |-> id]

VARIABLES
    clock,      \* monotonic time, in ticks
    mpc,        \* position of recording_manager_task: "main", "drain", "done"
    ongoing,    \* RecordingManagerTask.ongoing_recordings
    active,     \* ActiveRecordings (the Active-Recording Index)
    disk,       \* the recordings directory: session id -> DiskEntry
    disconnected, \* the BinaryHeap<DisconnectedTtl>, greatest (Ord) first
    armed,      \* deadline of next_remove_sleep
    chan,       \* the mpsc channel of RecordingManagerMessage
    shutdown,   \* the shutdown signal has been raised
    envOpen,    \* a RecordingMessageSender is held outside the pushers
    events,     \* events of the environment so far: messages it sent, failures
                \* of the filesystem or of a stream, the shutdown signal, the
                \* drop of its sender
    delays,     \* steps of the clock so far
    last,       \* outcome of the manager's latest step
    push,       \* pusher -> state of its ClientPush::run
    reply       \* pusher -> what its oneshot reply channel delivered

\* the variables of the recording manager and its pushers
recVars == <<clock, mpc, ongoing, active, disk, disconnected, armed, chan,
             shutdown, envOpen, events, delays, last, push, reply>>

VARIABLES
    now,        \* monotonic time of the subscriber tasks, in milliseconds
    conf,       \* ConfHandle: the subscriber of the current configuration (0: none)
    dconf,      \* subscriber_task's local `conf`
    notified,   \* a configuration change has not been taken by change_notified()
    schan,      \* the mpsc channel of subscriber Messages
    sopen,      \* a SubscriberSender is alive
    dpc,        \* position of subscriber_task: "run" or "done"
    task,       \* message -> state of the delivery task spawned for it
    sent,       \* messages sent on the channel so far
    changes,    \* configuration changes so far
    fivexx      \* 5xx answers of the subscribers so far

\* the variables of the subscriber dispatcher and its delivery tasks
subVars == <<now, conf, dconf, notified, schan, sopen, dpc, task, sent, changes, fivexx>>

VARIABLES
    sessions,   \* SESSIONS_IN_PROGRESS: the (key, session) entries of the map
    rwlock,     \* its RwLock: the handler holding it for writing, the readers
    handler,    \* handler -> its call of add_/remove_session_in_progress
    ppc,        \* position of subscriber_polling_task
    snapshot,   \* the session list it collected last
    calls,      \* calls of the handlers so far
    live        \* the ids added and not removed since, by the calls that returned

\* the variables of the session registry and its polling task
regVars == <<sessions, rwlock, handler, ppc, snapshot, calls, live>>

vars == <<recVars, subVars, regVars>>

Msgs == 1..NumMsgs

\* the Subscriber {url, token} values a configuration can hold; 0 is None
Endpoints == 1..NumEndpoints

\* A delivery task: its position in send_message, the Subscriber moved into
\* it, the backoff schedule (start_time, current_interval), the deadline of
\* its sleep, what send_message returned, and a record of its POSTs: their
\* number, the time, status and Retry-After header of the latest, the length
\* of the latest sleep, the number of successful ones and the endpoints used.
Delivery(pc, sub) ==
    [pc |-> pc, subscriber |-> sub, start |-> 0, interval |-> 0, wake |-> 0,
     ret |-> "none", posts |-> 0, at |-> 0, slept |-> 0, status |-> "none",
     retry_after |-> 0, acks |-> 0, urls |-> {}]

Handlers == 1..NumHandlers

Protocols == {"rdp", "ssh"}

\* GatewaySessionInfo
GatewaySessionInfo(id, ap, ts) ==
    [association_id |-> id, application_protocol |-> ap, start_timestamp |-> ts]

NoSession == GatewaySessionInfo(0, "unknown", 0)

\* SubscriberSessionInfo
SubscriberSessionInfo(session) ==
    [association_id |-> session.association_id, start_timestamp |-> session.start_timestamp]

\* an entry of the HashMap
Entry(key, session) == [key |-> key, session |-> session]

\* a handler's call: "idle", or add/remove waiting for or holding the lock
Call(pc, id, session) == [pc |-> pc, id |-> id, session |-> session]

\* The registry before any session, its polling task about to start.
RegStart ==
    /\ sessions = {}
    /\ rwlock = [writer |-> 0, readers |-> 0]
    /\ handler = [h \in Handlers |-> Call("idle", 0, NoSession)]
    /\ ppc = "collect"
    /\ snapshot = {}
    /\ calls = 0
    /\ live = {}

\* The state at the start of subscriber_task under configuration c.
SubStart(c) ==
    /\ now = 0
    /\ conf = c
    /\ dconf = c
    /\ notified = FALSE
    /\ schan = <<>>
    /\ sopen = TRUE
    /\ dpc = "run"
    /\ task = [k \in Msgs |-> Delivery("none", 0)]
    /\ sent = 0
    /\ changes = 0
    /\ fivexx = 0

\* time::OffsetDateTime::now_utc().unix_timestamp()
NowUnix == clock \div TicksPerSec

\* ------------------------------------------------------------ the TTL heap

\* TtlGreater without the reversal of the order of the deadlines
TtlGreater_NotReversed(a, b) ==
    \/ a.deadline > b.deadline
    \/ a.deadline = b.deadline /\ a.id > b.id

\* impl Ord for DisconnectedTtl: a is Greater than b
TtlGreater(a, b) ==
    \/ a.deadline < b.deadline
    \/ a.deadline = b.deadline /\ a.id > b.id

\* HeapPush keeping one entry per id: a second entry replaces the first
RECURSIVE HeapPush_OnePerId(_, _)
HeapPush_OnePerId(h, e) ==
    IF h = <<>> THEN <<e>>
    ELSE IF Head(h).id = e.id THEN HeapPush_OnePerId(Tail(h), e)
    ELSE IF TtlGreater(e, Head(h)) THEN <<e>> \o SelectSeq(h, LAMBDA x : x.id # e.id)
    ELSE <<Head(h)>> \o HeapPush_OnePerId(Tail(h), e)

\* BinaryHeap::push; the heap is kept as the sequence of its entries in the
\* order BinaryHeap::pop returns them (greatest first).
RECURSIVE HeapPush(_, _)
HeapPush(h, e) ==
    IF h = <<>> THEN <<e>>
    ELSE IF TtlGreater(e, Head(h)) THEN <<e>> \o h
    ELSE <<Head(h)>> \o HeapPush(Tail(h), e)

\* BinaryHeap::peek / the entry BinaryHeap::pop returns
HeapPeek(h) == Head(h)

\* the heap after BinaryHeap::pop
HeapPop(h) == Tail(h)

\* Sleep::is_elapsed
IsElapsed == armed <= clock

\* ---------------------------------------------------------- handle_connect

\* Outcomes of the filesystem calls of one handler: no failure, or the one
\* call that fails. A failing std::fs::write either leaves the file alone
\* (it could not be opened) or leaves it truncated (the write failed).
IoChoices == {"none", "read", "mkdir", "write_keep", "write_trunc"}

WriteFails(io) == io \in {"write_keep", "write_trunc"}

\* IsConnected matching the wrong variant of the state
IsConnected_WrongVariant(id) == ongoing[id].state = "LastSeen"

\* the guard that rejects a concurrent recording
IsConnected(id) == ongoing[id].state = "Connected"

DirExists(id) == disk[id].st # "nodir"

\* NextFileIdx counting from one
NextFileIdx_OffByOne(m) == Len(m.files) + 1

NextFileIdx(m) == Len(m.files)

\* AppendFile writing the new file over the last entry
AppendFile_Overwrite(m, ft) ==
    [m EXCEPT !.files[Len(m.files)] = JrecFile(FileName(Len(m.files) - 1, ft), NowUnix, 0)]

\* the manifest read from disk with the new file pushed
AppendFile(m, ft) ==
    [m EXCEPT !.files = Append(m.files, JrecFile(FileName(NextFileIdx(m), ft), NowUnix, 0))]

InitialManifest(id, ft) ==
    JrecManifest(id, NowUnix, 0, <<JrecFile(FileName(0, ft), NowUnix, 0)>>)

\* JrecManifest::save_to_file over disk entry d
SaveToFile(d, m, io) ==
    IF io = "write_keep" THEN d
    ELSE IF io = "write_trunc" THEN DiskEntry("corrupt", NoManifest)
    ELSE DiskEntry("ok", m)

\* ReadOk taking a missing recording.json for an empty manifest
ReadOk_DefaultsWhenMissing(d, io) == d.st \in {"ok", "nofile"} /\ io # "read"

\* JrecManifest::read_from_file succeeds
ReadOk(d, io) == d.st = "ok" /\ io # "read"

ConnectResult(res, m, d, file) == [res |-> res, manifest |-> m, disk |-> d, file |-> file]

\* handle_connect up to the insertion: the result, the manifest it holds,
\* the session's directory afterwards and the file it returns.
ConnectOutcome(id, ft, io) ==
    IF IsConnected(id)
    THEN ConnectResult("rejected", NoManifest, disk[id], NoFileName)
    ELSE IF DirExists(id)
    THEN IF ~ReadOk(disk[id], io)
         THEN ConnectResult("io", NoManifest, disk[id], NoFileName)
         ELSE LET m == AppendFile(disk[id].m, ft)
              IN  IF WriteFails(io)
                  THEN ConnectResult("io", NoManifest, SaveToFile(disk[id], m, io), NoFileName)
                  ELSE ConnectResult("ok", m, SaveToFile(disk[id], m, io),
                                     m.files[Len(m.files)].file_name)
    ELSE IF io = "mkdir"
         THEN ConnectResult("io", NoManifest, disk[id], NoFileName)
         ELSE LET m == InitialManifest(id, ft)
                  created == DiskEntry("nofile", NoManifest)
              IN  IF WriteFails(io)
                  THEN ConnectResult("io", NoManifest, SaveToFile(created, m, io), NoFileName)
                  ELSE ConnectResult("ok", m, SaveToFile(created, m, io),
                                     m.files[1].file_name)

\* ActiveRecordings::insert
ActiveInsert(id) == active \cup {id}

\* ActiveRecordings::remove
ActiveRemove(id) == active \ {id}

\* ------------------------------------------------------- handle_disconnect

DisconnectResult(res, e, d) == [res |-> res, entry |-> e, disk |-> d]

\* CloseManifest taking the manifest's duration from the current file's start
CloseManifest_FileStart(m, end_time) ==
    [m EXCEPT !.files[Len(m.files)].duration = end_time - m.files[Len(m.files)].start_time,
              !.duration = end_time - m.files[Len(m.files)].start_time]

\* the manifest with the current file's and its own duration set
CloseManifest(m, end_time) ==
    [m EXCEPT !.files[Len(m.files)].duration = end_time - m.files[Len(m.files)].start_time,
              !.duration = end_time - m.start_time]

\* DisconnectOutcome without the check of the state: any known entry is closed
DisconnectOutcome_NoStateCheck(id, io) ==
    LET e == ongoing[id] IN
    IF e.state = "Absent" THEN DisconnectResult("unknown", e, disk[id])
    ELSE LET end_time == NowUnix
             m == CloseManifest(e.manifest, end_time)
             seen == OnGoingRecording("LastSeen", end_time, m)
         IN  IF WriteFails(io)
             THEN DisconnectResult("io", seen, SaveToFile(disk[id], m, io))
             ELSE DisconnectResult("ok", seen, SaveToFile(disk[id], m, io))

\* handle_disconnect: the result, the entry of ongoing_recordings and the
\* session's directory afterwards.
DisconnectOutcome(id, io) ==
    LET e == ongoing[id] IN
    IF e.state = "Absent" THEN DisconnectResult("unknown", e, disk[id])
    ELSE IF e.state # "Connected" THEN DisconnectResult("not_connected", e, disk[id])
    ELSE LET end_time == NowUnix IN
         IF e.manifest.files = <<>>
         THEN DisconnectResult("no_file", OnGoingRecording("LastSeen", end_time, e.manifest), disk[id])
         ELSE LET m == CloseManifest(e.manifest, end_time)
                  seen == OnGoingRecording("LastSeen", end_time, m)
              IN  IF WriteFails(io)
                  THEN DisconnectResult("io", seen, SaveToFile(disk[id], m, io))
                  ELSE DisconnectResult("ok", seen, SaveToFile(disk[id], m, io))

\* ------------------------------------------------------------ handle_remove

\* ShouldRemove without the match on the LastSeen variant
ShouldRemove_AnyState(id) ==
    /\ ongoing[id].state # "Absent"
    /\ NowUnix >= ongoing[id].timestamp + DISCONNECTED_TTL_SECS - 1

\* the match arm that removes the recording
ShouldRemove(id) ==
    /\ ongoing[id].state = "LastSeen"
    /\ NowUnix >= ongoing[id].timestamp + DISCONNECTED_TTL_SECS - 1

\* handle_remove: ongoing_recordings and the index afterwards
RemoveOutcome(id) ==
    IF ShouldRemove(id)
    THEN [ongoing |-> [ongoing EXCEPT ![id] = Absent], active |-> ActiveRemove(id), res |-> "removed"]
    ELSE [ongoing |-> ongoing, active |-> active, res |-> "kept"]

\* What the manager's latest step did: the operation, its session id, its
\* result, the file a Connect returned and the number a query returned.
Last(op, id, res, file, n) == [op |-> op, id |-> id, res |-> res, file |-> file, n |-> n]


\* ------------------------------------------------------------ the pushers

\* A ClientPush: its inputs, its position in run, what run returned, the
\* state of its client stream and the messages it has sent.
ClientPush(pc, sid, aid, ft) ==
    [pc |-> pc, session_id |-> sid, jet_aid |-> aid, file_type |-> ft,
     res |-> "none", ret |-> "none", stream |-> "open", connects |-> 0, disconnects |-> 0]

Unused == ClientPush("unused", 0, 0, "none")

Reply(st, id, file) == [st |-> st, id |-> id, file |-> file]

NoReply == Reply("none", 0, NoFileName)

\* some RecordingMessageSender is alive: the channel is not closed
SendersAlive == envOpen \/ \E p \in Pushers : push[p].pc \notin {"unused", "done"}

\* ---------------------------------------------------- recording_manager_task

\* oneshot::Sender::send of a Connect's answer, or the sender being dropped
Answer(m, out) ==
    IF m.from \in Pushers
    THEN [reply EXCEPT ![m.from] =
            IF out.res = "ok" THEN Reply("path", m.id, out.file)
            ELSE Reply("closed", 0, NoFileName)]
    ELSE reply

\* ConnectCommitted only for a caller that still holds its reply channel
ConnectCommitted_OnlyIfReplied(m, out) == out.res = "ok" /\ m.from \in Pushers

\* handle_connect returned Ok: the recording was inserted into
\* active_recordings and ongoing_recordings before the answer is sent, and
\* `let _ = channel.send(..)` ignores a receiver that is gone (m.from = 0 is a
\* caller nobody follows, its receiver dropped or not)
ConnectCommitted(m, out) == out.res = "ok"

\* Dropped keeping the oneshot sender of the message alive
Dropped_KeepsSender(m) == reply

\* the oneshot sender of a message that is not serviced is dropped
Dropped(m) ==
    IF m.from \in Pushers /\ m.kind = "Connect"
    THEN [reply EXCEPT ![m.from] = Reply("closed", 0, NoFileName)]
    ELSE reply

\* the select! branch of next_remove_sleep
Tick ==
    /\ mpc = "main"
    /\ disconnected # <<>>
    /\ IsElapsed
    /\ LET to_remove == HeapPeek(disconnected)
           rest == HeapPop(disconnected)
           out == RemoveOutcome(to_remove.id)
       IN  /\ ongoing' = out.ongoing
           /\ active' = out.active
           /\ disconnected' = rest
           /\ armed' = IF rest # <<>> THEN HeapPeek(rest).deadline ELSE armed
           /\ last' = Last("remove", to_remove.id, out.res, NoFileName, 0)
    /\ UNCHANGED <<subVars, regVars, clock, mpc, disk, chan, shutdown, envOpen, events, delays, push, reply>>

\* the Connect arm of the main loop
MainConnect ==
    /\ mpc = "main"
    /\ chan # <<>>
    /\ Head(chan).kind = "Connect"
    /\ \E io \in IoChoices :
        /\ io # "none" => events < MaxEvents
        /\ events' = IF io # "none" THEN events + 1 ELSE events
        /\ LET m == Head(chan)
               out == ConnectOutcome(m.id, m.file_type, io)
           IN  /\ disk' = [disk EXCEPT ![m.id] = out.disk]
               /\ active' = IF ConnectCommitted(m, out) THEN ActiveInsert(m.id) ELSE active
               /\ ongoing' = IF ConnectCommitted(m, out)
                             THEN [ongoing EXCEPT ![m.id] = OnGoingRecording("Connected", 0, out.manifest)]
                             ELSE ongoing
               /\ reply' = Answer(m, out)
               /\ last' = Last("connect", m.id, out.res, out.file, 0)
    /\ chan' = Tail(chan)
    /\ UNCHANGED <<subVars, regVars, clock, mpc, disconnected, armed, shutdown, envOpen, delays, push>>

\* the deadline of next_remove_sleep after a push of `deadline`
Rearm(deadline) ==
    IF IsElapsed \/ deadline < armed THEN deadline ELSE armed

\* the Disconnect arm of the main loop
MainDisconnect ==
    /\ mpc = "main"
    /\ chan # <<>>
    /\ Head(chan).kind = "Disconnect"
    /\ \E io \in {"none", "write_keep", "write_trunc"} :
        /\ io # "none" => events < MaxEvents
        /\ events' = IF io # "none" THEN events + 1 ELSE events
        /\ LET m == Head(chan)
               out == DisconnectOutcome(m.id, io)
               deadline == clock + DISCONNECTED_TTL_DURATION
           IN  /\ ongoing' = [ongoing EXCEPT ![m.id] = out.entry]
               /\ disk' = [disk EXCEPT ![m.id] = out.disk]
               /\ disconnected' = HeapPush(disconnected, DisconnectedTtl(deadline, m.id))
               /\ armed' = Rearm(deadline)
               /\ last' = Last("disconnect", m.id, out.res, NoFileName, 0)
    /\ chan' = Tail(chan)
    /\ UNCHANGED <<subVars, regVars, clock, mpc, active, shutdown, envOpen, delays, push, reply>>

\* the GetState arm of the main loop
MainGetState ==
    /\ mpc = "main"
    /\ chan # <<>>
    /\ Head(chan).kind = "GetState"
    /\ last' = Last("get_state", Head(chan).id, ongoing[Head(chan).id].state, NoFileName,
                    ongoing[Head(chan).id].timestamp)
    /\ chan' = Tail(chan)
    /\ UNCHANGED <<subVars, regVars, clock, mpc, ongoing, active, disk, disconnected, armed,
                   shutdown, envOpen, events, delays, push, reply>>

\* ongoing_recordings.len()
OngoingCount == Cardinality({id \in Ids : ongoing[id].state # "Absent"})

\* the GetCount arm of the main loop
MainGetCount ==
    /\ mpc = "main"
    /\ chan # <<>>
    /\ Head(chan).kind = "GetCount"
    /\ last' = Last("get_count", 0, "count", NoFileName, OngoingCount)
    /\ chan' = Tail(chan)
    /\ UNCHANGED <<subVars, regVars, clock, mpc, ongoing, active, disk, disconnected, armed,
                   shutdown, envOpen, events, delays, push, reply>>

\* recv() returns None in the main loop: "All senders are dead"
MainClosed ==
    /\ mpc = "main"
    /\ chan = <<>>
    /\ ~SendersAlive
    /\ mpc' = "drain"
    /\ UNCHANGED <<subVars, regVars, clock, ongoing, active, disk, disconnected, armed, chan,
                   shutdown, envOpen, events, delays, last, push, reply>>

\* the shutdown branch of the main loop
MainShutdown ==
    /\ mpc = "main"
    /\ shutdown
    /\ mpc' = "drain"
    /\ UNCHANGED <<subVars, regVars, clock, ongoing, active, disk, disconnected, armed, chan,
                   shutdown, envOpen, events, delays, last, push, reply>>

\* DrainOutcome removing the entry in place of closing it
DrainOutcome_RemoveOnly(id, io) ==
    DisconnectResult("ok", ongoing[id], disk[id])

\* the drain loop's call of handle_disconnect
DrainOutcome(id, io) == DisconnectOutcome(id, io)

\* ongoing_recordings and the index after the drain loop handled Disconnect{id}
DrainRemove(og, id) == [ongoing |-> [og EXCEPT ![id] = Absent], active |-> active]

\* the drain loop receives a Disconnect
DrainDisconnect ==
    /\ mpc = "drain"
    /\ chan # <<>>
    /\ Head(chan).kind = "Disconnect"
    /\ \E io \in {"none", "write_keep", "write_trunc"} :
        /\ io # "none" => events < MaxEvents
        /\ events' = IF io # "none" THEN events + 1 ELSE events
        /\ LET m == Head(chan)
               out == DrainOutcome(m.id, io)
               rem == DrainRemove([ongoing EXCEPT ![m.id] = out.entry], m.id)
           IN  /\ ongoing' = rem.ongoing
               /\ active' = rem.active
               /\ disk' = [disk EXCEPT ![m.id] = out.disk]
               /\ last' = Last("drain_disconnect", m.id, out.res, NoFileName, 0)
    /\ chan' = Tail(chan)
    /\ UNCHANGED <<subVars, regVars, clock, mpc, disconnected, armed, shutdown, envOpen, delays, push, reply>>

\* the drain loop receives any other message and drops it
DrainOther ==
    /\ mpc = "drain"
    /\ chan # <<>>
    /\ Head(chan).kind # "Disconnect"
    /\ reply' = Dropped(Head(chan))
    /\ last' = Last("drop", Head(chan).id, Head(chan).kind, NoFileName, 0)
    /\ chan' = Tail(chan)
    /\ UNCHANGED <<subVars, regVars, clock, mpc, ongoing, active, disk, disconnected, armed,
                   shutdown, envOpen, events, delays, push>>

\* recv() returns None in the drain loop: the task terminates
DrainClosed ==
    /\ mpc = "drain"
    /\ chan = <<>>
    /\ ~SendersAlive
    /\ mpc' = "done"
    /\ UNCHANGED <<subVars, regVars, clock, ongoing, active, disk, disconnected, armed, chan,
                   shutdown, envOpen, events, delays, last, push, reply>>

\* ---------------------------------------------------------- the environment

EnvMessages ==
    {ConnectMsg(id, ft, 0) : id \in Ids, ft \in FileTypes}
        \cup {DisconnectMsg(id, 0) : id \in Ids}
        \cup {GetStateMsg(id) : id \in Ids}
        \cup {GetCountMsg}

\* a holder of a RecordingMessageSender sends a message
EnvSend ==
    /\ envOpen
    /\ mpc # "done"
    /\ events < MaxEvents
    /\ Len(chan) < ChanCap
    /\ \E m \in EnvMessages : chan' = Append(chan, m)
    /\ events' = events + 1
    /\ UNCHANGED <<subVars, regVars, clock, mpc, ongoing, active, disk, disconnected, armed,
                   shutdown, envOpen, delays, last, push, reply>>

\* the last RecordingMessageSender held outside the pushers is dropped
EnvClose ==
    /\ envOpen
    /\ events < MaxEvents
    /\ envOpen' = FALSE
    /\ events' = events + 1
    /\ UNCHANGED <<subVars, regVars, clock, mpc, ongoing, active, disk, disconnected, armed, chan,
                   shutdown, delays, last, push, reply>>

\* the shutdown signal is raised
RaiseShutdown ==
    /\ ~shutdown
    /\ events < MaxEvents
    /\ shutdown' = TRUE
    /\ events' = events + 1
    /\ UNCHANGED <<subVars, regVars, clock, mpc, ongoing, active, disk, disconnected, armed, chan,
                   envOpen, delays, last, push, reply>>

\* time passes
Advance ==
    /\ delays < MaxDelays
    /\ \E d \in Delays : clock' = clock + d
    /\ delays' = delays + 1
    /\ UNCHANGED <<subVars, regVars, mpc, ongoing, active, disk, disconnected, armed, chan,
                   shutdown, envOpen, events, last, push, reply>>

\* ------------------------------------------------------------ specification

\* The state after RecordingManagerTask::new and the consumed initial sleep.
RecInit ==
    /\ clock = 0
    /\ mpc = "main"
    /\ ongoing = [id \in Ids |-> Absent]
    /\ active = {}
    /\ disk = [id \in Ids |-> NoDir]
    /\ disconnected = <<>>
    /\ armed = 0
    /\ chan = <<>>
    /\ shutdown = FALSE
    /\ envOpen = TRUE
    /\ events = 0
    /\ delays = 0
    /\ last = Last("none", 0, "none", NoFileName, 0)
    /\ push = [p \in Pushers |-> Unused]
    /\ reply = [p \in Pushers |-> NoReply]

Init == RecInit /\ SubStart(0) /\ RegStart

Manager ==
    \/ Tick
    \/ MainConnect
    \/ MainDisconnect
    \/ MainGetState
    \/ MainGetCount
    \/ MainClosed
    \/ MainShutdown
    \/ DrainDisconnect
    \/ DrainOther
    \/ DrainClosed

Next ==
    \/ Manager
    \/ EnvSend
    \/ EnvClose
    \/ RaiseShutdown
    \/ Advance

Spec == Init /\ [][Next]_vars

\* the select! branch of next_remove_sleep is ready
TickReady == mpc = "main" /\ disconnected # <<>>

\* Time passes, but not while a message waits in the channel and not beyond
\* the deadline of an armed next_remove_sleep: the manager takes what is
\* ready before the clock moves on.
TimelyAdvance ==
    /\ delays < MaxDelays
    /\ chan = <<>>
    /\ \E d \in Delays :
        /\ TickReady => clock + d <= armed
        /\ clock' = clock + d
    /\ delays' = delays + 1
    /\ UNCHANGED <<subVars, regVars, mpc, ongoing, active, disk, disconnected, armed, chan,
                   shutdown, envOpen, events, last, push, reply>>

TimedNext ==
    \/ Manager
    \/ EnvSend
    \/ EnvClose
    \/ RaiseShutdown
    \/ TimelyAdvance

\* The manager with a scheduler that never lets a message or a due tick wait.
TimedSpec == Init /\ [][TimedNext]_vars


\* ----------------------------------------------------------- ClientPush::run

\* run has returned `ret`; a client stream that was not shut down is dropped
Return(q, ret) ==
    [q EXCEPT !.pc = "done", !.ret = ret,
              !.stream = IF q.stream = "open" THEN "dropped" ELSE q.stream]

\* client_stream.shutdown() succeeding (ok) or failing
StreamShutdown(q, ok) == [q EXCEPT !.stream = IF ok THEN "shutdown" ELSE "shutdown_failed"]

\* the session id check: run bails out
Mismatch(q) == Return(q, "err")

PushMismatch(p) ==
    /\ push[p].pc = "start"
    /\ push[p].session_id # push[p].jet_aid
    /\ push' = [push EXCEPT ![p] = Mismatch(push[p])]
    /\ UNCHANGED <<subVars, regVars, clock, mpc, ongoing, active, disk, disconnected, armed, chan,
                   shutdown, envOpen, events, delays, last, reply>>

\* RecordingMessageSender::connect: the message is sent. (A send fails only
\* once the receiver is gone, which the manager drops when it returns, and it
\* returns only after every sender, this pusher's included, is dropped.)
PushConnect(p) ==
    /\ push[p].pc = "start"
    /\ push[p].session_id = push[p].jet_aid
    /\ mpc # "done"
    /\ Len(chan) < ChanCap
    /\ chan' = Append(chan, ConnectMsg(push[p].session_id, push[p].file_type, p))
    /\ push' = [push EXCEPT ![p].pc = "wait", ![p].connects = @ + 1]
    /\ UNCHANGED <<subVars, regVars, clock, mpc, ongoing, active, disk, disconnected, armed,
                   shutdown, envOpen, events, delays, last, reply>>

\* ConnectFailed falling through to the disconnect instead of returning
ConnectFailed_FallsThrough(q, ok) ==
    [StreamShutdown(q, ok) EXCEPT !.pc = "disconnect", !.res = IF ok THEN "ok" ELSE "err"]

\* RecordingMessageSender::connect returned an error: the stream is shut
\* down and run returns Ok, or the error of the shutdown
ConnectFailed(q, ok) ==
    Return(StreamShutdown(q, ok), IF ok THEN "ok" ELSE "err")

\* the reply channel was closed without an answer
PushRefused(p) ==
    /\ push[p].pc = "wait"
    /\ reply[p].st = "closed"
    /\ \E ok \in BOOLEAN :
        /\ ~ok => events < MaxEvents
        /\ events' = IF ok THEN events ELSE events + 1
        /\ push' = [push EXCEPT ![p] = ConnectFailed(push[p], ok)]
    /\ UNCHANGED <<subVars, regVars, clock, mpc, ongoing, active, disk, disconnected, armed, chan,
                   shutdown, envOpen, delays, last, reply>>

\* OpenFailed returning the error at once
OpenFailed_Returns(q) == Return(q, "err")

\* the recording file could not be opened: run goes on to the disconnect
OpenFailed(q) == [q EXCEPT !.pc = "disconnect", !.res = "err"]

\* the reply channel delivered the path: the file is opened
PushOpen(p) ==
    /\ push[p].pc = "wait"
    /\ reply[p].st = "path"
    /\ \E ok \in BOOLEAN :
        /\ ~ok => events < MaxEvents
        /\ events' = IF ok THEN events ELSE events + 1
        /\ push' = [push EXCEPT ![p] = IF ok THEN [push[p] EXCEPT !.pc = "copy"]
                                        ELSE OpenFailed(push[p])]
    /\ UNCHANGED <<subVars, regVars, clock, mpc, ongoing, active, disk, disconnected, armed, chan,
                   shutdown, envOpen, delays, last, reply>>

\* the copy branch of the select!: io::copy returned
CopyReturned(q, ok) == [q EXCEPT !.pc = "disconnect", !.res = IF ok THEN "ok" ELSE "err"]

PushCopy(p) ==
    /\ push[p].pc = "copy"
    /\ \E ok \in BOOLEAN :
        /\ ~ok => events < MaxEvents
        /\ events' = IF ok THEN events ELSE events + 1
        /\ push' = [push EXCEPT ![p] = CopyReturned(push[p], ok)]
    /\ UNCHANGED <<subVars, regVars, clock, mpc, ongoing, active, disk, disconnected, armed, chan,
                   shutdown, envOpen, delays, last, reply>>

\* io::copy is at work for a tick
PushCopying(p) ==
    /\ push[p].pc = "copy"
    /\ delays < MaxDelays
    /\ clock' = clock + 1
    /\ delays' = delays + 1
    /\ UNCHANGED <<subVars, regVars, mpc, ongoing, active, disk, disconnected, armed, chan,
                   shutdown, envOpen, events, last, push, reply>>

\* the shutdown branch of the select!: the stream is shut down
ShutdownWon(q, ok) ==
    [StreamShutdown(q, ok) EXCEPT !.pc = "disconnect", !.res = IF ok THEN "ok" ELSE "err"]

PushShutdown(p) ==
    /\ push[p].pc = "copy"
    /\ shutdown
    /\ \E ok \in BOOLEAN :
        /\ ~ok => events < MaxEvents
        /\ events' = IF ok THEN events ELSE events + 1
        /\ push' = [push EXCEPT ![p] = ShutdownWon(push[p], ok)]
    /\ UNCHANGED <<subVars, regVars, clock, mpc, ongoing, active, disk, disconnected, armed, chan,
                   shutdown, envOpen, delays, last, reply>>

\* RecordingMessageSender::disconnect, then run returns the stored result
PushDisconnect(p) ==
    /\ push[p].pc = "disconnect"
    /\ mpc # "done"
    /\ Len(chan) < ChanCap
    /\ chan' = Append(chan, DisconnectMsg(push[p].session_id, p))
    /\ push' = [push EXCEPT ![p] = Return([push[p] EXCEPT !.disconnects = @ + 1], push[p].res)]
    /\ UNCHANGED <<subVars, regVars, clock, mpc, ongoing, active, disk, disconnected, armed,
                   shutdown, envOpen, events, delays, last, reply>>

Pusher(p) ==
    \/ PushMismatch(p)
    \/ PushConnect(p)
    \/ PushRefused(p)
    \/ PushOpen(p)
    \/ PushCopy(p)
    \/ PushShutdown(p)
    \/ PushDisconnect(p)

\* The manager and NumPushers pushers, each started with a session id, the
\* jet_aid of its claims and a file type.
PushInit ==
    /\ clock = 0
    /\ mpc = "main"
    /\ ongoing = [id \in Ids |-> Absent]
    /\ active = {}
    /\ disk = [id \in Ids |-> NoDir]
    /\ disconnected = <<>>
    /\ armed = 0
    /\ chan = <<>>
    /\ shutdown = FALSE
    /\ envOpen = TRUE
    /\ events = 0
    /\ delays = 0
    /\ last = Last("none", 0, "none", NoFileName, 0)
    /\ push \in [Pushers -> {ClientPush("start", sid, aid, ft) :
                               sid \in Ids, aid \in Ids, ft \in FileTypes}]
    /\ reply = [p \in Pushers |-> NoReply]
    /\ SubStart(0)
    /\ RegStart

\* The runs of the pushers are followed at one instant: no time passes, and
\* so no eviction timer expires.
PushNext ==
    \/ MainConnect
    \/ MainDisconnect
    \/ MainClosed
    \/ MainShutdown
    \/ DrainDisconnect
    \/ DrainOther
    \/ DrainClosed
    \/ \E p \in Pushers : Pusher(p)
    \/ EnvClose
    \/ RaiseShutdown

PushSpec == PushInit /\ [][PushNext]_vars


\* the drain loop: the manager after it left its main loop
Drain ==
    \/ DrainDisconnect
    \/ DrainOther
    \/ DrainClosed

\* RecordingMessageSender::get_state or get_count is called
EnvQuery ==
    /\ envOpen
    /\ mpc # "done"
    /\ events < MaxEvents
    /\ Len(chan) < ChanCap
    /\ \E m \in {GetStateMsg(id) : id \in Ids} \cup {GetCountMsg} : chan' = Append(chan, m)
    /\ events' = events + 1
    /\ UNCHANGED <<subVars, regVars, clock, mpc, ongoing, active, disk, disconnected, armed,
                   shutdown, envOpen, delays, last, push, reply>>

\* pushers of different sessions, each with the jet_aid of its claims
ShutdownInit ==
    /\ PushInit
    /\ \A p \in Pushers :
        /\ push[p].session_id = ((p - 1) % NumIds) + 1
        /\ push[p].jet_aid = push[p].session_id
        /\ push[p].file_type = "webm"

ShutdownNext ==
    \/ MainConnect
    \/ MainDisconnect
    \/ MainGetState
    \/ MainGetCount
    \/ MainClosed
    \/ MainShutdown
    \/ Drain
    \/ \E p \in Pushers :
        \/ PushConnect(p)
        \/ PushRefused(p)
        \/ PushOpen(p)
        \/ PushCopying(p)
        \/ PushCopy(p)
        \/ PushShutdown(p)
        \/ PushDisconnect(p)
    \/ EnvQuery
    \/ EnvClose
    \/ RaiseShutdown

\* The manager, the pushers and the other holders of a sender up to the end
\* of the manager's task; the runtime keeps polling the task while it drains.
ShutdownSpec == ShutdownInit /\ [][ShutdownNext]_vars /\ WF_vars(Drain)


\* the steps of recording_manager_task on its channel and its shutdown signal
ManagerStep ==
    \/ MainConnect
    \/ MainDisconnect
    \/ MainClosed
    \/ MainShutdown
    \/ Drain

\* The manager and the pushers, the runtime polling the manager's task as
\* long as it has something to do.
ResolveSpec == PushInit /\ [][PushNext]_vars /\ WF_vars(ManagerStep)

\* ------------------------------------------------------------- the subscriber

\* the classes of reqwest's answer: a response status, or a transport error
Statuses == {"2xx", "3xx", "4xx", "5xx", "io"}

\* the Retry-After header of a response, in milliseconds; 0 is no header
RetryAfters == {0, 1000}

\* rand::random::<f64>() of the backoff schedule: 0, 1/2 or 1, in halves
Randoms == {0, 1, 2}

RETRY_INITIAL_INTERVAL == 3 * 1000

RETRY_MAX_ELAPSED_TIME == 60 * 3 * 1000

\* ExponentialBackoffBuilder::default() leaves max_interval at 60 s
MAX_INTERVAL == 60 * 1000

\* ExponentialBackoff::get_random_value_from_interval; the builder leaves
\* randomization_factor at its default 0.5, so the value lies between half
\* and one and a half of the interval
RandomizedInterval(interval, random) ==
    (interval - interval \div 2) + random * (interval \div 2)

\* ExponentialBackoff::increment_current_interval with RETRY_MULTIPLIER 1.75
IncrementCurrentInterval(interval) ==
    IF interval * 175 >= MAX_INTERVAL * 100 THEN MAX_INTERVAL ELSE (interval * 175) \div 100

Backoff(some, delay, interval) == [some |-> some, delay |-> delay, interval |-> interval]

\* NextBackoff without a maximum elapsed time
NextBackoff_NoMaxElapsed(t, random) ==
    Backoff(TRUE, RandomizedInterval(t.interval, random), IncrementCurrentInterval(t.interval))

\* ExponentialBackoff::next_backoff at time `now`: None once the maximum
\* elapsed time is exceeded, or would be by the end of the interval
NextBackoff(t, random) ==
    LET elapsed == now - t.start
        randomized == RandomizedInterval(t.interval, random)
    IN  IF elapsed > RETRY_MAX_ELAPSED_TIME
        THEN Backoff(FALSE, 0, t.interval)
        ELSE IF elapsed + randomized <= RETRY_MAX_ELAPSED_TIME
        THEN Backoff(TRUE, randomized, IncrementCurrentInterval(t.interval))
        ELSE Backoff(FALSE, 0, IncrementCurrentInterval(t.interval))

\* Classify taking a client error for a transient one
Classify_ClientTransient(status) ==
    IF status \in {"4xx", "5xx"} THEN "transient"
    ELSE IF status = "io" THEN "permanent"
    ELSE "ok"

\* the result of op(): Ok, a permanent or a transient error
Classify(status) ==
    IF status = "io" THEN "permanent"
    ELSE IF status = "4xx" THEN "permanent"
    ELSE IF status = "5xx" THEN "transient"
    ELSE "ok"

\* the retry_after of the error op() returns: backoff::Error::transient
\* builds it without one, whatever the response's headers (0 is None)
ErrorRetryAfter(status, header) == 0

\* PostUrl reading the current configuration
PostUrl_CurrentConf(k) == conf

\* the subscriber a POST of delivery k goes to
PostUrl(k) == task[k].subscriber

\* the delivery after one round of the loop of send_message: the POST, answered
\* with `status` and `header`, and what the match on its result does
Attempt(k, status, header, random) ==
    LET t == task[k]
        posted == [t EXCEPT !.posts = @ + 1, !.at = now, !.status = status,
                            !.retry_after = header,
                            !.acks = IF status \in {"2xx", "3xx"} THEN @ + 1 ELSE @,
                            !.urls = @ \cup {PostUrl(k)}]
        class == Classify(status)
        retry_after == ErrorRetryAfter(status, header)
        next == NextBackoff(t, random)
    IN  IF class = "ok" THEN [posted EXCEPT !.pc = "done", !.ret = "ok"]
        ELSE IF class = "permanent" THEN [posted EXCEPT !.pc = "done", !.ret = "err"]
        ELSE IF retry_after # 0
        THEN [posted EXCEPT !.pc = "sleep", !.wake = now + retry_after, !.slept = retry_after]
        ELSE IF next.some
        THEN [posted EXCEPT !.pc = "sleep", !.wake = now + next.delay, !.slept = next.delay,
                            !.interval = next.interval]
        ELSE [posted EXCEPT !.pc = "done", !.ret = "err", !.interval = next.interval]

\* send_message builds its backoff schedule and its client
SendStart(k) ==
    /\ task[k].pc = "spawned"
    /\ task' = [task EXCEPT ![k].pc = "post", ![k].start = now,
                            ![k].interval = RETRY_INITIAL_INTERVAL]
    /\ UNCHANGED <<recVars, regVars, now, conf, dconf, notified, schan, sopen, dpc, sent, changes, fivexx>>

\* one round of the loop of send_message; the subscriber answers with one of
\* `statuses`. (The answer comes at once: time passes in the sleeps.)
Post(k, statuses) ==
    /\ task[k].pc = "post"
    /\ \E status \in statuses, header \in RetryAfters, random \in Randoms :
        /\ header # 0 => status = "5xx"
        /\ task' = [task EXCEPT ![k] = Attempt(k, status, header, random)]
        /\ fivexx' = IF status = "5xx" THEN fivexx + 1 ELSE fivexx
    /\ UNCHANGED <<recVars, regVars, now, conf, dconf, notified, schan, sopen, dpc, sent, changes>>

\* the delivery tasks asleep
Sleepers == {k \in Msgs : task[k].pc = "sleep"}

\* tokio::time::sleep(duration) returns: time has reached the deadline of
\* the sleep that ends first
Wake(k) ==
    /\ task[k].pc = "sleep"
    /\ \A j \in Sleepers : task[k].wake <= task[j].wake
    /\ now' = IF task[k].wake > now THEN task[k].wake ELSE now
    /\ task' = [task EXCEPT ![k].pc = "post"]
    /\ UNCHANGED <<recVars, regVars, conf, dconf, notified, schan, sopen, dpc, sent, changes, fivexx>>

\* the change_notified branch of subscriber_task
DispatchNotified ==
    /\ dpc = "run"
    /\ notified
    /\ dconf' = conf
    /\ notified' = FALSE
    /\ UNCHANGED <<recVars, regVars, now, conf, schan, sopen, dpc, task, sent, changes, fivexx>>

\* Dispatch spawning a delivery whatever the configuration
Dispatch_Always(sub) == Delivery("spawned", sub)

\* what subscriber_task does with a message under its configuration: it
\* spawns a delivery task holding a clone of the subscriber, or ignores it
Dispatch(sub) == IF sub # 0 THEN Delivery("spawned", sub) ELSE Delivery("ignored", 0)

\* the recv branch of subscriber_task
DispatchRecv ==
    /\ dpc = "run"
    /\ schan # <<>>
    /\ task' = [task EXCEPT ![Head(schan)] = Dispatch(dconf)]
    /\ schan' = Tail(schan)
    /\ UNCHANGED <<recVars, regVars, now, conf, dconf, notified, sopen, dpc, sent, changes, fivexx>>

\* recv() returns None: subscriber_task returns "All senders are dead"
DispatchClosed ==
    /\ dpc = "run"
    /\ schan = <<>>
    /\ ~sopen
    /\ dpc' = "done"
    /\ UNCHANGED <<recVars, regVars, now, conf, dconf, notified, schan, sopen, task, sent, changes, fivexx>>

\* a holder of a SubscriberSender sends the next message
SubSend ==
    /\ sopen
    /\ dpc = "run"
    /\ sent < NumMsgs
    /\ Len(schan) < 64
    /\ schan' = Append(schan, sent + 1)
    /\ sent' = sent + 1
    /\ UNCHANGED <<recVars, regVars, now, conf, dconf, notified, sopen, dpc, task, changes, fivexx>>

\* the last SubscriberSender is dropped
SubClose ==
    /\ sopen
    /\ sopen' = FALSE
    /\ UNCHANGED <<recVars, regVars, now, conf, dconf, notified, schan, dpc, task, sent, changes, fivexx>>

\* the configuration is changed and the change notified
ConfChange ==
    /\ changes < MaxChanges
    /\ \E c \in (Endpoints \cup {0}) \ {conf} : conf' = c
    /\ notified' = TRUE
    /\ changes' = changes + 1
    /\ UNCHANGED <<recVars, regVars, now, dconf, schan, sopen, dpc, task, sent, fivexx>>

\* the answers a subscriber may give: at most MaxServerErrors 5xx in all
Answers == IF fivexx < MaxServerErrors THEN Statuses ELSE Statuses \ {"5xx"}

DispatchInit == RecInit /\ RegStart /\ \E c \in Endpoints \cup {0} : SubStart(c)

DispatchNext ==
    \/ DispatchNotified
    \/ DispatchRecv
    \/ DispatchClosed
    \/ SubSend
    \/ SubClose
    \/ ConfChange
    \/ \E k \in Msgs :
        \/ SendStart(k)
        \/ Post(k, Answers)
        \/ Wake(k)

\* subscriber_task, the senders of messages, the configuration and the
\* delivery tasks.
DispatchSpec == DispatchInit /\ [][DispatchNext]_vars

\* One delivery task, spawned for message 1 with subscriber 1.
SendInit ==
    /\ RecInit
    /\ RegStart
    /\ now = 0
    /\ conf = 1
    /\ dconf = 1
    /\ notified = FALSE
    /\ schan = <<>>
    /\ sopen = TRUE
    /\ dpc = "run"
    /\ task = [k \in Msgs |-> IF k = 1 THEN Delivery("spawned", 1) ELSE Delivery("none", 0)]
    /\ sent = 1
    /\ changes = 0
    /\ fivexx = 0

SendNext ==
    \/ SendStart(1)
    \/ Post(1, Statuses)
    \/ Wake(1)

\* send_message against a subscriber that answers as it likes; the runtime
\* keeps polling the task.
SendSpec == SendInit /\ [][SendNext]_vars /\ WF_vars(SendNext)


\* ------------------------------------------------------ the session registry

\* HashMap::insert keeping an entry already under the key
Insert_KeepsOld(map, key, session) == map \cup {Entry(key, session)}

\* HashMap::insert: the entry under the key is replaced
Insert(map, key, session) == {e \in map : e.key # key} \cup {Entry(key, session)}

\* HashMap::remove
Remove(map, key) == {e \in map : e.key # key}

\* a handler calls add_session_in_progress(session)
CallAdd(h) ==
    /\ handler[h].pc = "idle"
    /\ calls < MaxCalls
    /\ \E id \in Ids, ap \in Protocols :
        handler' = [handler EXCEPT ![h] = Call("add", id, GatewaySessionInfo(id, ap, now))]
    /\ calls' = calls + 1
    /\ UNCHANGED <<recVars, subVars, sessions, rwlock, ppc, snapshot, live>>

\* a handler calls remove_session_in_progress(id)
CallRemove(h) ==
    /\ handler[h].pc = "idle"
    /\ calls < MaxCalls
    /\ \E id \in Ids : handler' = [handler EXCEPT ![h] = Call("remove", id, NoSession)]
    /\ calls' = calls + 1
    /\ UNCHANGED <<recVars, subVars, sessions, rwlock, ppc, snapshot, live>>

\* SESSIONS_IN_PROGRESS.write().await returns the guard
WriteLock(h) ==
    /\ handler[h].pc \in {"add", "remove"}
    /\ rwlock.writer = 0
    /\ rwlock.readers = 0
    /\ rwlock' = [rwlock EXCEPT !.writer = h]
    /\ handler' = [handler EXCEPT ![h].pc = IF @ = "add" THEN "add_locked" ELSE "remove_locked"]
    /\ UNCHANGED <<recVars, subVars, sessions, ppc, snapshot, calls, live>>

\* sessions.insert(session.association_id, session); the guard is dropped
AddSession(h) ==
    /\ handler[h].pc = "add_locked"
    /\ sessions' = Insert(sessions, handler[h].session.association_id, handler[h].session)
    /\ rwlock' = [rwlock EXCEPT !.writer = 0]
    /\ live' = live \cup {handler[h].id}
    /\ handler' = [handler EXCEPT ![h] = Call("idle", 0, NoSession)]
    /\ UNCHANGED <<recVars, subVars, ppc, snapshot, calls>>

\* .remove(&id); the guard is dropped
RemoveSession(h) ==
    /\ handler[h].pc = "remove_locked"
    /\ sessions' = Remove(sessions, handler[h].id)
    /\ rwlock' = [rwlock EXCEPT !.writer = 0]
    /\ live' = live \ {handler[h].id}
    /\ handler' = [handler EXCEPT ![h] = Call("idle", 0, NoSession)]
    /\ UNCHANGED <<recVars, subVars, ppc, snapshot, calls>>

\* SESSIONS_IN_PROGRESS.read() returns the guard
PollRead ==
    /\ ppc = "collect"
    /\ rwlock.writer = 0
    /\ rwlock' = [rwlock EXCEPT !.readers = @ + 1]
    /\ ppc' = "reading"
    /\ UNCHANGED <<recVars, subVars, sessions, handler, snapshot, calls, live>>

\* .values().map(..).collect()
Collect(map) == {SubscriberSessionInfo(e.session) : e \in map}

\* the session list is collected and the guard dropped
PollCollect ==
    /\ ppc = "reading"
    /\ snapshot' = Collect(sessions)
    /\ rwlock' = [rwlock EXCEPT !.readers = @ - 1]
    /\ ppc' = "send"
    /\ UNCHANGED <<recVars, subVars, sessions, handler, calls, live>>

\* tx.send(Message::session_list(session_list))
PollSend ==
    /\ ppc = "send"
    /\ sopen
    /\ sent < NumMsgs
    /\ Len(schan) < 64
    /\ schan' = Append(schan, sent + 1)
    /\ sent' = sent + 1
    /\ ppc' = "sleep"
    /\ UNCHANGED <<recVars, now, conf, dconf, notified, sopen, dpc, task, changes, fivexx,
                   sessions, rwlock, handler, snapshot, calls, live>>

\* sleep(TASK_INTERVAL), 20 minutes
PollSleep ==
    /\ ppc = "sleep"
    /\ now' = now + 60 * 20 * 1000
    /\ ppc' = "collect"
    /\ UNCHANGED <<recVars, conf, dconf, notified, schan, sopen, dpc, task, sent, changes, fivexx,
                   sessions, rwlock, handler, snapshot, calls, live>>

RegNext ==
    \/ \E h \in Handlers :
        \/ CallAdd(h)
        \/ CallRemove(h)
        \/ WriteLock(h)
        \/ AddSession(h)
        \/ RemoveSession(h)
    \/ PollRead
    \/ PollCollect
    \/ PollSend
    \/ PollSleep

\* The handlers that add and remove sessions, and subscriber_polling_task.
RegSpec == Init /\ [][RegNext]_vars


\* ------------------------------------------------------------------ claims

\* the step is the manager receiving the message at the head of the channel
Received == chan # <<>> /\ chan' = Tail(chan)

\* the keys of ongoing_recordings
OngoingIds == {id \in Ids : ongoing[id].state # "Absent"}

\* C1: at every quiescent point of the recording manager, after any sequence
\* of Connect, Disconnect, eviction ticks and shutdown draining, a session id
\* is in the Active-Recording Index if and only if it is a key of
\* ongoing_recordings.
C1_IndexMatchesOngoing == active = OngoingIds

\* C2: a Connect for an id whose recording is Connected returns no path (in the
\* main loop handle_connect rejects it), and the step changes neither
\* ongoing_recordings, nor the manifests on disk, nor the index.
C2_ConnectedRejected ==
    [][(/\ Received
        /\ Head(chan).kind = "Connect"
        /\ ongoing[Head(chan).id].state = "Connected")
       => (/\ last'.res # "ok"
           /\ mpc = "main" => last' = Last("connect", Head(chan).id, "rejected", NoFileName, 0)
           /\ ongoing' = ongoing
           /\ disk' = disk
           /\ active' = active)]_vars

\* C2 happens: a second Connect was rejected, the recording is still
\* Connected and its manifest on disk holds the one file of the first Connect.
C2_Witness ==
    /\ last.op = "connect"
    /\ last.res = "rejected"
    /\ ongoing[last.id].state = "Connected"
    /\ disk[last.id].st = "ok"
    /\ Len(disk[last.id].m.files) = 1
    /\ last.id \in active

\* the number of file entries of the manifest of `id` on disk
FilesOnDisk(id) == IF disk[id].st = "ok" THEN Len(disk[id].m.files) ELSE 0

\* C3: in the main loop, with the filesystem working (the session has no
\* directory yet or a readable manifest, and no call fails), a Connect for an
\* id that is not Connected succeeds: it appends exactly one file entry named
\* recording-{n}.{ext}, n the number of entries the manifest had before,
\* returns that file, and leaves the id Connected and in the index.
C3_ConnectSucceeds ==
    [][(/\ Received
        /\ mpc = "main"
        /\ Head(chan).kind = "Connect"
        /\ ongoing[Head(chan).id].state # "Connected"
        /\ disk[Head(chan).id].st \in {"nodir", "ok"}
        /\ events' = events)
       => LET id == Head(chan).id
              n == FilesOnDisk(id)
              name == [idx |-> n, ext |-> Head(chan).file_type]
          IN  /\ last' = Last("connect", id, "ok", name, 0)
              /\ disk'[id].st = "ok"
              /\ Len(disk'[id].m.files) = n + 1
              /\ disk'[id].m.files[n + 1] = [file_name |-> name, start_time |-> NowUnix, duration |-> 0]
              /\ \A i \in 1..n : disk'[id].m.files[i] = disk[id].m.files[i]
              /\ ongoing'[id].state = "Connected"
              /\ ongoing'[id].manifest = disk'[id].m
              /\ active' = active \cup {id}]_vars

\* C3 happens: a second Connect on a LastSeen id succeeded and returned
\* recording-1 of a manifest that now holds two files.
C3_Witness ==
    /\ last.op = "connect"
    /\ last.res = "ok"
    /\ last.file.idx = 1
    /\ ongoing[last.id].state = "Connected"
    /\ Len(ongoing[last.id].manifest.files) = 2
    /\ disk[last.id].m = ongoing[last.id].manifest
    /\ \E e \in 1..Len(disconnected) : disconnected[e].id = last.id


\* C4: while the manager is in its main loop, an entry that entered
\* LastSeen(ts) and receives no Connect afterwards is gone from
\* ongoing_recordings and from the index no later than ts + 11 s, whatever
\* messages interleave with the expiry of the timer.
C4_EvictedInTime ==
    mpc = "main" =>
        \A id \in Ids :
            ongoing[id].state = "LastSeen"
            => NowUnix <= ongoing[id].timestamp + DISCONNECTED_TTL_SECS + 1

\* the step is a tick of the eviction timer, for the entry at the top of the heap
Ticked == disconnected # <<>> /\ disconnected' = Tail(disconnected)

\* C5: an eviction tick removes an entry only if it is LastSeen(ts) at that
\* moment with now >= ts + 9, ts the time of the latest Disconnect, and then
\* removes that entry alone; a tick that finds the id Connected, absent or
\* disconnected less than 9 s ago changes nothing.
C5_EvictionSafe ==
    [][/\ Ticked =>
           LET id == Head(disconnected).id
               due == /\ ongoing[id].state = "LastSeen"
                      /\ NowUnix >= ongoing[id].timestamp + 9
           IN  /\ due => /\ ongoing' = [ongoing EXCEPT ![id] = Absent]
                         /\ active' = active \ {id}
               /\ ~due => ongoing' = ongoing /\ active' = active
               /\ disk' = disk
       /\ \A id \in Ids :
           (ongoing'[id].state = "LastSeen" /\ ongoing'[id].timestamp # ongoing[id].timestamp)
           => (/\ Received
               /\ Head(chan) = DisconnectMsg(id, Head(chan).from)
               /\ ongoing'[id].timestamp = NowUnix)]_vars

\* C5 happens: the tick of an earlier Disconnect found the session
\* reconnected and kept it.
C5_Witness ==
    /\ last.op = "remove"
    /\ last.res = "kept"
    /\ ongoing[last.id].state = "Connected"
    /\ Len(ongoing[last.id].manifest.files) = 2
    /\ last.id \in active

\* the file entries of a manifest are named by their position and start in order
WellFormed(m) ==
    \A i \in 1..Len(m.files) :
        /\ m.files[i].file_name.idx = i - 1
        /\ m.files[i].file_name.ext \in FileTypes
        /\ i > 1 => m.files[i - 1].start_time <= m.files[i].start_time

\* manifest n keeps every entry of manifest m in place, under its name
Extends(m, n) ==
    /\ Len(m.files) <= Len(n.files)
    /\ \A i \in 1..Len(m.files) :
        /\ n.files[i].file_name = m.files[i].file_name
        /\ n.files[i].start_time = m.files[i].start_time

\* C6: for every session, after any sequence of Connect, Disconnect, eviction
\* and reconnect, the files list of the manifest (on disk, and held by the
\* manager) is append-only: no entry is removed, reordered or renamed, the
\* entry at position i is named recording-{i}.{ext}, and start times are
\* non-decreasing along the list.
C6_AppendOnly ==
    /\ [](\A id \in Ids :
            /\ disk[id].st = "ok" => WellFormed(disk[id].m) /\ disk[id].m.files # <<>>
            /\ ongoing[id].state # "Absent" => WellFormed(ongoing[id].manifest))
    /\ [][\A id \in Ids :
            /\ (disk[id].st = "ok" /\ disk'[id].st = "ok") => Extends(disk[id].m, disk'[id].m)
            /\ (disk[id].st = "ok" /\ ongoing'[id].state # "Absent")
               => Extends(disk[id].m, ongoing'[id].manifest)]_vars

\* C6 happens: a Connect after the eviction of the entry, on the directory
\* that still exists, appended the second file.
C6_Witness ==
    \E id \in Ids :
        /\ disk[id].st = "ok"
        /\ Len(disk[id].m.files) = 2
        /\ disk[id].m.files[1].duration > 0
        /\ disk[id].m.files[2].start_time >= disk[id].m.files[1].start_time + DISCONNECTED_TTL_SECS
        /\ ongoing[id].state = "Connected"
        /\ \A e \in 1..Len(disconnected) : disconnected[e].id # id

\* C7: after every completed Disconnect at time end_time the current (last)
\* file has duration = end_time - file.start_time >= 0, the manifest has
\* duration = end_time - manifest.start_time, and that is at least
\* (start_time + duration) - manifest.start_time of every file.
C7_Durations ==
    [][(/\ Received
        /\ Head(chan).kind = "Disconnect"
        /\ last'.res = "ok")
       => LET m == disk'[Head(chan).id].m
              f == m.files[Len(m.files)]
          IN  /\ disk'[Head(chan).id].st = "ok"
              /\ f.duration = NowUnix - f.start_time
              /\ f.duration >= 0
              /\ m.duration = NowUnix - m.start_time
              /\ \A i \in 1..Len(m.files) :
                    m.duration >= m.files[i].start_time + m.files[i].duration - m.start_time
              /\ mpc = "main" => ongoing'[Head(chan).id] = OnGoingRecording("LastSeen", NowUnix, m)]_vars

\* C7 happens: the Disconnect of a reconnected session completed on a
\* manifest of two files, both with a positive duration.
C7_Witness ==
    /\ last.op = "disconnect"
    /\ last.res = "ok"
    /\ Len(disk[last.id].m.files) = 2
    /\ disk[last.id].m.files[1].duration > 0
    /\ disk[last.id].m.files[2].duration > 0
    /\ disk[last.id].m.duration > disk[last.id].m.files[2].duration


\* C8: the pusher sends exactly one Disconnect{id} for each Connect that
\* succeeded, on every path it can take afterwards, and sends it before
\* returning.
C8_OneDisconnect ==
    /\ [](\A p \in Pushers :
            /\ push[p].disconnects = (IF push[p].pc = "done" /\ reply[p].st = "path" THEN 1 ELSE 0)
            /\ push[p].connects <= 1)
    /\ [][\A p \in Pushers :
            push'[p].disconnects # push[p].disconnects
            => chan' = Append(chan, DisconnectMsg(push[p].session_id, p))]_vars

\* C8 happens: a pusher whose Connect succeeded took the shutdown branch,
\* the shutdown of its stream failed, and it has returned the error after
\* sending its Disconnect.
C8_Witness ==
    \E p \in Pushers :
        /\ push[p].pc = "done"
        /\ reply[p].st = "path"
        /\ push[p].stream = "shutdown_failed"
        /\ push[p].ret = "err"
        /\ push[p].disconnects = 1

\* C9: a pusher invoked with session_id different from claims.jet_aid fails
\* immediately, sends no Connect and no Disconnect, and the client stream is
\* shut down gracefully.
C9_MismatchGraceful ==
    \A p \in Pushers :
        (push[p].pc = "done" /\ push[p].session_id # push[p].jet_aid)
        => (/\ push[p].ret = "err"
            /\ push[p].connects = 0
            /\ push[p].disconnects = 0
            /\ push[p].stream = "shutdown")

\* the pusher got no path in answer to its Connect and has returned
Refused(p) == push[p].pc = "done" /\ reply[p].st = "closed"

\* C10 as stated: when the manager does not answer a Connect with a path, the
\* pusher gracefully shuts down the client stream, returns OK, and sends no
\* Disconnect for that id.
C10_RefusedReturnsOk ==
    \A p \in Pushers :
        Refused(p) => (/\ push[p].stream = "shutdown"
                       /\ push[p].ret = "ok"
                       /\ push[p].disconnects = 0)

\* C10 as amended: when the manager does not answer a Connect with a path,
\* the pusher calls the graceful shutdown of the client stream, returns OK if
\* that shutdown succeeded and its error if it failed, and in both cases sends
\* no Disconnect: every Disconnect in the channel comes from a pusher whose
\* Connect was answered with a path.
C10_RefusedNoDisconnect ==
    /\ \A p \in Pushers :
        Refused(p) => (/\ push[p].stream \in {"shutdown", "shutdown_failed"}
                       /\ push[p].ret = (IF push[p].stream = "shutdown" THEN "ok" ELSE "err")
                       /\ push[p].disconnects = 0)
    /\ \A i \in 1..Len(chan) :
        (chan[i].kind = "Disconnect" /\ chan[i].from \in Pushers)
        => reply[chan[i].from].st = "path"

\* C10 happens: the second pusher of a session was rejected and has returned
\* OK while the recording of the first is still Connected.
C10_Witness ==
    \E p, q \in Pushers :
        /\ p # q
        /\ Refused(p)
        /\ push[p].ret = "ok"
        /\ last.res = "rejected"
        /\ reply[q].st = "path"
        /\ push[q].session_id = push[p].session_id
        /\ push[q].pc = "copy"
        /\ ongoing[push[p].session_id].state = "Connected"

\* the number of entries of the heap h for session id with the given deadline
Scheduled(h, id, deadline) ==
    Cardinality({e \in 1..Len(h) : h[e] = [deadline |-> deadline, id |-> id]})

\* C19: a Disconnect processed in the main loop for an id in state Connected
\* moves it to LastSeen{timestamp = end_time}, keeps the id both in the index
\* and in ongoing_recordings, and schedules exactly one eviction entry for
\* that id, with deadline now + 10 s: the heap gains that entry and keeps all
\* the others.
C19_DisconnectSchedules ==
    [][(/\ Received
        /\ mpc = "main"
        /\ Head(chan).kind = "Disconnect"
        /\ ongoing[Head(chan).id].state = "Connected")
       => LET id == Head(chan).id
              deadline == clock + 10 * TicksPerSec
          IN  /\ ongoing'[id].state = "LastSeen"
              /\ ongoing'[id].timestamp = NowUnix
              /\ id \in active /\ active' = active
              /\ \A o \in Ids \ {id} : ongoing'[o] = ongoing[o]
              /\ Len(disconnected') = Len(disconnected) + 1
              /\ Scheduled(disconnected', id, deadline) = Scheduled(disconnected, id, deadline) + 1
              /\ \A e \in 1..Len(disconnected) :
                    Scheduled(disconnected', disconnected[e].id, disconnected[e].deadline)
                        >= Scheduled(disconnected, disconnected[e].id, disconnected[e].deadline)
              /\ mpc' = "main"]_vars

\* C19 happens: the second Disconnect of a reconnected session left it
\* LastSeen with two eviction entries, the stale one and the new one.
C19_Witness ==
    /\ last.op = "disconnect"
    /\ last.res = "ok"
    /\ ongoing[last.id].state = "LastSeen"
    /\ ongoing[last.id].timestamp = NowUnix
    /\ last.id \in active
    /\ Len(ongoing[last.id].manifest.files) = 2
    /\ Cardinality({e \in 1..Len(disconnected) : disconnected[e].id = last.id}) = 2
    /\ Scheduled(disconnected, last.id, clock + 10 * TicksPerSec) = 1

Closed(m, t) ==
    /\ m.files # <<>>
    /\ m.files[Len(m.files)].duration = t - m.files[Len(m.files)].start_time
    /\ m.duration = t - m.start_time

\* C11: after the actor takes the shutdown signal it services no further
\* Connect, GetState or GetCount (the message is dropped with its reply
\* channel, so the caller gets an error, and nothing changes), it keeps
\* processing every Disconnect that arrives until all senders are closed, and
\* the Disconnect of a recording that was still Connected writes the final
\* manifest with its durations (the write succeeding) before the actor
\* terminates; the actor terminates once all senders are closed, and not
\* before the channel is empty.
C11_DrainFlushes ==
    /\ [][(mpc # "main" /\ Received)
          => LET m == Head(chan) IN
             /\ mpc = "drain"
             /\ m.kind # "Disconnect"
                => (/\ last' = Last("drop", m.id, m.kind, NoFileName, 0)
                    /\ m.from \in Pushers => reply'[m.from].st = "closed"
                    /\ ongoing' = ongoing /\ disk' = disk /\ active' = active)
             /\ (m.kind = "Disconnect" /\ ongoing[m.id].state = "Connected" /\ events' = events)
                => (/\ disk'[m.id].st = "ok"
                    /\ Closed(disk'[m.id].m, NowUnix)
                    /\ Extends(ongoing[m.id].manifest, disk'[m.id].m)
                    /\ Len(disk'[m.id].m.files) = Len(ongoing[m.id].manifest.files))]_vars
    /\ [][mpc # "main" => mpc' # "main"]_vars
    /\ [](mpc = "done" => chan = <<>> /\ ~SendersAlive)
    /\ ((mpc = "drain" /\ ~SendersAlive) ~> mpc = "done")

\* C11 happens: the actor has terminated after the shutdown signal, having
\* dropped the Connect of one pusher and flushed, in its drain loop, the
\* manifest of the recording of the other.
C11_Witness ==
    /\ mpc = "done"
    /\ shutdown
    /\ \E p, q \in Pushers :
        /\ Refused(p)
        /\ ongoing[push[p].session_id].state = "Absent"
        /\ disk[push[p].session_id].st = "nodir"
        /\ push[q].pc = "done"
        /\ reply[q].st = "path"
        /\ push[q].disconnects = 1
        /\ last.op = "drain_disconnect"
        /\ last.id = push[q].session_id
        /\ last.res = "ok"
        /\ disk[last.id].st = "ok"
        /\ disk[last.id].m.duration > 0
\* the step is a POST of delivery k
Posted(k) == task'[k].posts # task[k].posts

\* a delivery that has returned stays as it is: nothing is sent for it again
Final(k) == task[k].pc = "done" => task'[k] = task[k]

\* C12: a delivery attempt is classified by its answer: 2xx/3xx is success,
\* 4xx a permanent failure, 5xx a transient failure (retried as long as the
\* backoff schedule allows), a transport error a permanent failure; after a
\* permanent failure no further POST is made and send_message returns the
\* error, so a message whose first answer is, say, 401 gets exactly one POST.
C12_Classification ==
    /\ [][\A k \in Msgs :
            /\ Posted(k) =>
                /\ task[k].pc = "post"
                /\ task'[k].posts = task[k].posts + 1
                /\ task'[k].status \in {"2xx", "3xx"} => task'[k].pc = "done" /\ task'[k].ret = "ok"
                /\ task'[k].status \in {"4xx", "io"} => task'[k].pc = "done" /\ task'[k].ret = "err"
                /\ task'[k].status = "5xx" =>
                    /\ task'[k].pc = "sleep" \/ (task'[k].pc = "done" /\ task'[k].ret = "err")
                    /\ (now - task[k].start) + task[k].interval + task[k].interval \div 2 <= 180 * 1000
                       => task'[k].pc = "sleep"
            /\ Final(k)]_vars
    /\ [](\A k \in Msgs :
            (task[k].pc = "done" /\ task[k].posts > 1) => fivexx >= task[k].posts - 1)

\* C12 happens: the first answer was a client error and the delivery has
\* returned the error after its only POST.
C12_Witness ==
    /\ task[1].pc = "done"
    /\ task[1].status = "4xx"
    /\ task[1].ret = "err"
    /\ task[1].posts = 1

\* C13: a delivery answered 5xx and then 2xx succeeds with exactly one POST
\* acknowledged, no POST is made after it, and each retry waits the backoff
\* delay first: at least 3 s lie between the first and the second attempt.
C13_RetryAfterThreeSeconds ==
    \A k \in Msgs :
        /\ task[k].acks <= 1
        /\ task[k].acks = 1 => task[k].pc = "done" /\ task[k].ret = "ok"
        /\ (task[k].pc = "sleep" /\ task[k].posts = 1) => task[k].wake >= task[k].at + 3 * 1000

\* C14: every delivery task terminates; against a subscriber that keeps
\* answering 5xx no retry is scheduled to start later than 3 min after the
\* start of the schedule, send_message then returns the error, and a delivery
\* that has returned is never taken up again.
C14_DeliveryTerminates ==
    /\ <>(task[1].pc = "done")
    /\ [](\A k \in Msgs :
            /\ task[k].pc = "sleep" => task[k].wake - task[k].start <= 180 * 1000
            /\ task[k].at - task[k].start <= 180 * 1000
            /\ (task[k].pc = "done" /\ task[k].status = "5xx") => task[k].ret = "err")
    /\ [][\A k \in Msgs :
            /\ (Posted(k) /\ task'[k].status = "5xx" /\ task'[k].pc = "done")
               => (now - task[k].start) + task[k].interval + task[k].interval \div 2 > 180 * 1000
            /\ task[k].pc = "done" => task'[k].pc = "done" /\ task'[k].posts = task[k].posts]_vars
    /\ [][schan' = schan]_vars

\* C14 happens: the subscriber answered 5xx until the schedule was exhausted,
\* and the delivery has returned the error.
C14_Witness ==
    /\ task[1].pc = "done"
    /\ task[1].ret = "err"
    /\ task[1].status = "5xx"
    /\ task[1].posts >= 8
    /\ now > 120 * 1000

\* C15: when a 5xx answer carries a Retry-After value, the next retry of the
\* message is delayed by that value instead of the backoff interval.
C15_RetryAfterHonoured ==
    \A k \in Msgs :
        (task[k].pc = "sleep" /\ task[k].status = "5xx" /\ task[k].retry_after # 0)
        => task[k].wake = task[k].at + task[k].retry_after

\* the step is subscriber_task receiving the message at the head of its channel
Dispatched == schan # <<>> /\ schan' = Tail(schan)

\* C16: the dispatcher starts a delivery task for a received message if and
\* only if its configuration holds a subscriber when the message is received
\* (else the message is ignored and no POST is ever made for it), and it never
\* waits for a delivery: while it runs, a message in the channel can be
\* received whatever the deliveries in flight are doing.
C16_DispatchIffConfigured ==
    /\ [][Dispatched =>
            LET k == Head(schan) IN
            /\ dpc = "run"
            /\ task[k].pc = "none"
            /\ dconf # 0 => task'[k].pc = "spawned" /\ task'[k].posts = 0
            /\ dconf = 0 => task'[k].pc = "ignored"
            /\ \A j \in Msgs \ {k} : task'[j] = task[j]]_vars
    /\ [][\A k \in Msgs :
            /\ task[k].pc = "ignored" => task'[k] = task[k]
            /\ (task[k].pc = "none" /\ task'[k].pc # "none") => Dispatched /\ k = Head(schan)]_vars
    /\ [](\A k \in Msgs : task[k].pc \in {"none", "ignored"} => task[k].posts = 0)
    /\ []((dpc = "run" /\ schan # <<>>) => ENABLED DispatchRecv)

\* C16 happens: the second message has been delivered while the delivery of
\* the first is asleep between two attempts.
C16_Witness ==
    /\ task[1].pc = "sleep"
    /\ task[1].posts = 1
    /\ task[2].pc = "done"
    /\ task[2].ret = "ok"
    /\ task[2].at >= task[1].at

\* C17: a configuration change is applied only between messages: every
\* attempt of a delivery, retries included, goes to the subscriber that the
\* dispatcher's configuration held when the message was dispatched, the
\* dispatcher's configuration changes only when it takes a change
\* notification, and a message received after that uses the new subscriber.
C17_ConfAppliedBetweenMessages ==
    /\ [](\A k \in Msgs : task[k].urls \subseteq {task[k].subscriber})
    /\ [][\A k \in Msgs :
            /\ task[k].pc # "none" => task'[k].subscriber = task[k].subscriber
            /\ (Dispatched /\ k = Head(schan)) => task'[k].subscriber = dconf
            /\ Posted(k) => task'[k].urls = task[k].urls \cup {task[k].subscriber}]_vars
    /\ [][dconf' # dconf => (notified /\ dconf' = conf /\ ~notified' /\ task' = task /\ schan' = schan)]_vars

\* C17 happens: the first delivery is at its second attempt, still to
\* subscriber 1, after the dispatcher took the change to subscriber 2 and
\* dispatched the second message to it.
C17_Witness ==
    /\ task[1].posts = 2
    /\ task[1].urls = {1}
    /\ dconf = 2
    /\ conf = 2
    /\ task[2].subscriber = 2
    /\ task[2].urls = {2}
\* the keys of the registry
Keys(map) == {e.key : e \in map}

\* the entries of the map under keys other than id
Others(map, id) == {e \in map : e.key # id}

\* C18: under any interleaving of add and remove calls of different handlers
\* the registry holds at most one record per id, an add replaces the whole
\* record under its id, a remove leaves its id absent, neither touches
\* another id, and the session list the polling task collects holds exactly
\* the ids added and not yet removed when it reads the map.
C18_RegistryConsistent ==
    /\ [](/\ \A id \in Ids : Cardinality({e \in sessions : e.key = id}) <= 1
          /\ \A e \in sessions : e.session.association_id = e.key
          /\ Keys(sessions) = live)
    /\ [][\A h \in Handlers :
            /\ (handler[h].pc = "add_locked" /\ handler'[h].pc = "idle")
               => (/\ [key |-> handler[h].id, session |-> handler[h].session] \in sessions'
                   /\ Others(sessions', handler[h].id) = Others(sessions, handler[h].id))
            /\ (handler[h].pc = "remove_locked" /\ handler'[h].pc = "idle")
               => (/\ handler[h].id \notin Keys(sessions')
                   /\ Others(sessions', handler[h].id) = Others(sessions, handler[h].id))
            /\ handler'[h].pc = handler[h].pc
               => sessions' = sessions \/ \E g \in Handlers : handler'[g].pc # handler[g].pc]_vars
    /\ [][(ppc = "reading" /\ ppc' # "reading")
          => (/\ {i.association_id : i \in snapshot'} = live
              /\ Cardinality(snapshot') = Cardinality(live)
              /\ \A e \in sessions :
                    [association_id |-> e.key, start_timestamp |-> e.session.start_timestamp]
                        \in snapshot')]_vars

\* C18 happens: after two adds and the remove of the first id, by different
\* handlers, the polling task has collected the one session that is left.
C18_Witness ==
    /\ ppc = "send"
    /\ calls = 3
    /\ \A h \in Handlers : handler[h].pc = "idle"
    /\ \E id \in Ids : live = {id} /\ {i.association_id : i \in snapshot} = {id}
\* C21: in every state of the main loop in which the TTL heap is non-empty
\* the eviction timer is armed no later than the heap's earliest deadline,
\* also when a Disconnect is processed after the timer has expired and before
\* its tick was taken; with an empty heap no tick occurs.
C21_TimerAtEarliest ==
    (mpc = "main" /\ disconnected # <<>>) =>
        \A e \in 1..Len(disconnected) : armed <= disconnected[e].deadline

\* the heap h without its entry at position i
RemoveAt(h, i) == SubSeq(h, 1, i - 1) \o SubSeq(h, i + 1, Len(h))

\* the step pops an entry off the TTL heap
Pops == Len(disconnected') = Len(disconnected) - 1

\* C22 as stated: the TTL queue pops the entry with the earliest deadline
\* first, and among entries with equal deadlines the smallest UUID first.
C22_PopsAscendingId ==
    [][Pops =>
        \E i \in 1..Len(disconnected) :
            /\ disconnected' = RemoveAt(disconnected, i)
            /\ last'.id = disconnected[i].id
            /\ \A j \in 1..Len(disconnected) :
                \/ disconnected[i].deadline < disconnected[j].deadline
                \/ /\ disconnected[i].deadline = disconnected[j].deadline
                   /\ disconnected[i].id <= disconnected[j].id]_vars

\* C22 as amended: the TTL queue pops the entry with the earliest deadline
\* first, and among entries with equal deadlines the greatest UUID first.
C22_PopsDescendingId ==
    [][Pops =>
        \E i \in 1..Len(disconnected) :
            /\ disconnected' = RemoveAt(disconnected, i)
            /\ last'.op = "remove"
            /\ last'.id = disconnected[i].id
            /\ \A j \in 1..Len(disconnected) :
                \/ disconnected[i].deadline < disconnected[j].deadline
                \/ /\ disconnected[i].deadline = disconnected[j].deadline
                   /\ disconnected[i].id >= disconnected[j].id]_vars

\* C22 happens: of two sessions disconnected at the same instant, the tick
\* at their deadline has evicted session 2 and left the entry of session 1.
C22_Witness ==
    /\ last = Last("remove", 2, "removed", NoFileName, 0)
    /\ disconnected = <<[deadline |-> 10 * TicksPerSec, id |-> 1]>>
    /\ ongoing[1].state = "LastSeen"
    /\ ongoing[1].timestamp = 0
    /\ ongoing[2].state = "Absent"
\* C23: every Connect that a caller has enqueued is eventually resolved: the
\* caller receives a file path or finds its reply channel closed, in the main
\* loop and during the shutdown drain (nothing can be enqueued once the actor
\* has stopped, for it stops only when every sender is gone); an answer, once
\* given, stands; and a path is given only in the step that has written the
\* manifest holding that file as its last entry.
C23_ConnectResolved ==
    /\ \A p \in Pushers : (push[p].pc = "wait") ~> (reply[p].st # "none")
    /\ [](mpc = "done" => \A p \in Pushers : push[p].pc # "wait")
    /\ [][\A p \in Pushers :
            /\ reply[p].st # "none" => reply'[p] = reply[p]
            /\ (reply[p].st = "none" /\ reply'[p].st # "none")
               => (/\ push[p].pc = "wait"
                   /\ Received
                   /\ Head(chan) = ConnectMsg(push[p].session_id, push[p].file_type, p))
            /\ (reply[p].st = "none" /\ reply'[p].st = "path")
               => LET d == disk'[push[p].session_id] IN
                  /\ mpc = "main"
                  /\ d.st = "ok"
                  /\ d.m.files[Len(d.m.files)].file_name = reply'[p].file
                  /\ reply'[p].file.ext = push[p].file_type
                  /\ reply'[p].id = push[p].session_id
                  /\ ongoing'[push[p].session_id].manifest = d.m]_vars

\* C23 happens: during the drain one pusher's Connect was dropped and its
\* reply channel closed, after another pusher had received its path in the
\* main loop.
C23_Witness ==
    /\ mpc = "drain"
    /\ last.op = "drop"
    /\ \E p, q \in Pushers :
        /\ reply[p] = Reply("closed", 0, NoFileName)
        /\ push[p].pc = "wait"
        /\ reply[q].st = "path"
        /\ disk[reply[q].id].st = "ok"
\* C24: a Connect whose caller no longer holds the reply channel is completed
\* all the same when its I/O succeeds (the manifest on disk has the new file
\* entry, the id is Connected with that manifest and is in the index, no
\* answer reaches anybody); a Connected id leaves that state only by a
\* received Disconnect for it, never by an eviction tick or the passing of
\* time; and while it is Connected the main loop rejects every Connect for it
\* and changes nothing.
C24_DroppedReplyStillConnects ==
    [][/\ (/\ Received
           /\ mpc = "main"
           /\ Head(chan).kind = "Connect"
           /\ Head(chan).from \notin Pushers
           /\ disk'[Head(chan).id].st = "ok"
           /\ Len(disk'[Head(chan).id].m.files) = FilesOnDisk(Head(chan).id) + 1)
          => (/\ ongoing'[Head(chan).id] =
                    OnGoingRecording("Connected", 0, disk'[Head(chan).id].m)
              /\ active' = active \cup {Head(chan).id}
              /\ reply' = reply)
       /\ \A id \in Ids :
            (ongoing[id].state = "Connected" /\ ongoing'[id] # ongoing[id])
            => (/\ Received
                /\ Head(chan).kind = "Disconnect"
                /\ Head(chan).id = id)
       /\ \A id \in Ids :
            (/\ ongoing[id].state = "Connected"
             /\ Received
             /\ mpc = "main"
             /\ Head(chan).kind = "Connect"
             /\ Head(chan).id = id)
            => (/\ last' = Last("connect", id, "rejected", NoFileName, 0)
                /\ ongoing' = ongoing
                /\ disk' = disk
                /\ active' = active
                /\ disconnected' = disconnected)]_vars

\* C24 happens: no Disconnect was ever processed, more than the TTL after the
\* start of the recording it is still Connected and in the index, and a later
\* Connect for it has just been rejected.
C24_Witness ==
    /\ last.op = "connect"
    /\ last.res = "rejected"
    /\ mpc = "main"
    /\ disconnected = <<>>
    /\ ongoing[last.id].state = "Connected"
    /\ last.id \in active
    /\ disk[last.id].st = "ok"
    /\ Len(disk[last.id].m.files) = 1
    /\ disk[last.id].m.files[1].duration = 0
    /\ NowUnix > disk[last.id].m.files[1].start_time + DISCONNECTED_TTL_SECS
    /\ \A p \in Pushers : reply[p].st = "none"
\* the session directory of id exists and its recording.json cannot be read
Unreadable(id) == disk[id].st \in {"nofile", "corrupt"}

\* C25: a Connect that fails with an I/O error changes neither
\* ongoing_recordings nor the index and closes the caller's reply channel;
\* when it created the session directory and failed to write the first
\* manifest, the directory is left without a readable manifest; nothing the
\* program does repairs such a directory of a session it does not hold; and
\* every later Connect for that id fails with an I/O error, whatever the
\* filesystem does then, and changes nothing.
C25_FailedConnectLeavesNoEntry ==
    /\ [](\A id \in Ids : disk[id].st = "nofile" => ongoing[id].state = "Absent")
    /\ [][/\ (/\ Received
              /\ mpc = "main"
              /\ Head(chan).kind = "Connect"
              /\ last'.res = "io")
             => (/\ ongoing' = ongoing
                 /\ active' = active
                 /\ \A id \in Ids : id # Head(chan).id => disk'[id] = disk[id]
                 /\ Head(chan).from \in Pushers
                    => reply'[Head(chan).from] = Reply("closed", 0, NoFileName)
                 /\ (disk[Head(chan).id].st = "nodir" /\ disk'[Head(chan).id].st # "nodir")
                    => disk'[Head(chan).id].st \in {"nofile", "corrupt"})
          /\ \A id \in Ids :
                (Unreadable(id) /\ ongoing[id].state = "Absent")
                => (/\ disk'[id] = disk[id]
                    /\ ongoing'[id] = ongoing[id]
                    /\ (id \in active') = (id \in active))
          /\ \A id \in Ids :
                (/\ Unreadable(id)
                 /\ ongoing[id].state # "Connected"
                 /\ Received
                 /\ mpc = "main"
                 /\ Head(chan) = ConnectMsg(id, Head(chan).file_type, Head(chan).from))
                => last' = Last("connect", id, "io", NoFileName, 0)]_vars

\* C25 happens: the first Connect of a session created the directory and
\* failed to write the manifest, and the Connect of a second pusher for the
\* same session then failed on reading it, with no further fault; both
\* callers found their reply channel closed, and the manager holds nothing.
C25_Witness ==
    /\ mpc = "main"
    /\ events = 1
    /\ last.op = "connect"
    /\ last.res = "io"
    /\ disk[last.id].st = "nofile"
    /\ ongoing = [id \in Ids |-> Absent]
    /\ active = {}
    /\ \A p \in Pushers :
        /\ push[p].session_id = last.id
        /\ push[p].connects = 1
        /\ reply[p] = Reply("closed", 0, NoFileName)

====
